---- MODULE Spec2Model ----
(***************************************************************************)
(* Group ordering of wwc_core (src/core/src/group/order.rs, stats.rs).     *)
(*                                                                         *)
(* A call of order_group is modelled as a process: the NonStrictGroupOrder *)
(* is refined by one rule per step (non_strict_ordering), then either cast *)
(* to a GroupOrder or handed to the Tiebreaker, which folds over the       *)
(* subsets and sorts each tied one with the tiebreaker's cmp.  A panic of  *)
(* the code (expect, unwrap, index out of bounds) ends the call in "panic".*)
(*                                                                         *)
(* Specifications:                                                         *)
(*   Spec       order_group on any group, rule list and tiebreaker         *)
(*   SpecTwice  the same, called twice on the same inputs                  *)
(*   SpecUefa   euro_2020 with a ranking built by UefaRanking::try_new     *)
(*   SpecFifa   fifa_2018 on groups with more goals and with cards         *)
(*   SpecTb     Tiebreaker::order on any sequence of subsets               *)
(*   SpecCast   order_group, and GroupOrder::try_from on any sequence      *)
(*   SpecFn     SubOrdering::order and UnaryStat::team_stats called alone  *)
(*                                                                         *)
(* Group, PlayedGroupGame, NumWins, the fair-play values and               *)
(* internal_team_stats are not among the files; they are modelled from     *)
(* their uses and from the specification.                                  *)
(***************************************************************************)
EXTENDS Integers, Sequences, FiniteSets, TLC

VARIABLES
    group,      \* the Group being ordered: [teams, played_games]
    groups,     \* the groups handed to UefaRanking::try_new
    rules,      \* Rules.non_strict: the list of sub-orderings
    tb,         \* Rules.tiebreaker (or the request to construct it)
    pc,         \* position of the call
    remaining,  \* non_strict_ordering: the rules not yet applied
    order,      \* non_strict_ordering: the current NonStrictGroupOrder
    todo,       \* Tiebreaker::order: the subsets not yet folded
    acc,        \* Tiebreaker::order: the fold's accumulator
    result,     \* the GroupOrder returned by order_group
    hist,       \* the NonStrictGroupOrder after init and after each rule
    call,       \* which call of order_group on these inputs this is
    first,      \* outcome of the first call, once a second one is made
    calls,      \* per rule applied: the subsets its order was invoked on
    cmps        \* the pairs (id_1, id_2) the tiebreaker's cmp was called on

vars == <<group, groups, rules, tb, pc, remaining, order, todo, acc, result,
          hist, call, first, calls, cmps>>

(***************************************************************************)
(* Bounds of the model.                                                    *)
(***************************************************************************)
NumTeams == 3
MaxGoals == 1
MaxRank == 2
MaxEntries == 2
FifaMaxGoals == 2
MaxCards == 1

TeamIds == 1..NumTeams

(***************************************************************************)
(* Sequence helpers.                                                       *)
(***************************************************************************)
Range(s) == {s[i] : i \in DOMAIN s}

Front(s) == SubSeq(s, 1, Len(s) - 1)

Last(s) == s[Len(s)]

Reverse(s) == [i \in 1..Len(s) |-> s[Len(s) + 1 - i]]

RECURSIVE Flatten(_)
Flatten(ss) == IF ss = <<>> THEN <<>> ELSE Head(ss) \o Flatten(Tail(ss))

\* All orderings of a finite set as sequences without repetition.
Perms(S) == {p \in [1..Cardinality(S) -> S] : Range(p) = S}

(***************************************************************************)
(* stats.rs: UnaryStat.  A statistic maps a played game to the pair         *)
(* (home delta, away delta).                                                *)
(***************************************************************************)
GroupPointStat(game) ==
    IF game.score[1] > game.score[2] THEN <<3, 0>>
    ELSE IF game.score[1] < game.score[2] THEN <<0, 3>>
    ELSE <<1, 1>>

GoalDiffStat(game) ==
    LET goal_diff == game.score[1] - game.score[2]
    IN  <<goal_diff, -goal_diff>>

GoalCountStat(game) == <<game.score[1], game.score[2]>>

\* NumWins is imported by order.rs from group::stats; its impl is not in
\* the files: one win for the side with more goals.
NumWinsStat(game) ==
    IF game.score[1] > game.score[2] THEN <<1, 0>>
    ELSE IF game.score[1] < game.score[2] THEN <<0, 1>>
    ELSE <<0, 0>>

\* Fair-play values come from crate::fair_play (not in the files): an
\* opaque penalty, here minus the number of cards of each side.
FairPlayStat(game) == <<-game.fair_play[1], -game.fair_play[2]>>

Stat(kind, game) ==
    CASE kind = "GroupPoint" -> GroupPointStat(game)
      [] kind = "GoalDiff" -> GoalDiffStat(game)
      [] kind = "GoalCount" -> GoalCountStat(game)
      [] kind = "NumWins" -> NumWinsStat(game)
      [] kind = "FifaFairPlayValue" -> FairPlayStat(game)
      [] kind = "UefaFairPlayValue" -> FairPlayStat(game)

\* Mutant of FoldStats: only the home team's accumulator is updated.
RECURSIVE FoldStats_home_only(_, _, _)
FoldStats_home_only(kind, games, team_map) ==
    IF games = <<>> THEN [panic |-> FALSE, val |-> team_map]
    ELSE LET game == Head(games)
             delta == Stat(kind, game)
         IN  IF game.home \notin DOMAIN team_map
             THEN [panic |-> TRUE, val |-> team_map]
             ELSE FoldStats_home_only(kind, Tail(games),
                     [team_map EXCEPT ![game.home] = @ + delta[1]])

\* The fold of team_stats over the games, in the steps of the closure:
\* get_mut(home).expect(..) panics when the home team has no entry; the
\* home accumulator is updated; get_mut(away).expect(..) panics when the
\* away team has no entry, the home accumulator being updated already; the
\* away accumulator is updated.  On a panic val is the accumulator as it
\* was when the fold panicked.
RECURSIVE FoldStats(_, _, _)
FoldStats(kind, games, team_map) ==
    IF games = <<>> THEN [panic |-> FALSE, val |-> team_map]
    ELSE LET game == Head(games)
             delta == Stat(kind, game)
         IN  IF game.home \notin DOMAIN team_map
             THEN [panic |-> TRUE, val |-> team_map]
             ELSE LET home == [team_map EXCEPT ![game.home] = @ + delta[1]]
                  IN  IF game.away \notin DOMAIN home
                      THEN [panic |-> TRUE, val |-> home]
                      ELSE FoldStats(kind, Tail(games),
                              [home EXCEPT ![game.away] = @ + delta[2]])

\* group.teams(): the teams of the group (crate::group, not in the files).
GroupTeams(g) == Range(g.teams)

\* Mutant of team_stats: only the teams of played games get an entry.
team_stats_played_only(kind, g) ==
    FoldStats(kind, g.played_games,
              [t \in {g.played_games[i].home : i \in DOMAIN g.played_games}
                     \cup {g.played_games[i].away : i \in DOMAIN g.played_games}
                  |-> 0])

\* team_stats returns [panic, val]: val is the mapping, panic tells that
\* the fold panicked.
team_stats(kind, g) ==
    FoldStats(kind, g.played_games, [t \in GroupTeams(g) |-> 0])

\* internal_team_stats is called by InternalGroupStat::order but is not in
\* the files: the same fold, over the games between teams of the subset.
internal_team_stats(kind, g, team_filter) ==
    FoldStats(kind,
              SelectSeq(g.played_games,
                        LAMBDA game : game.home \in team_filter
                                      /\ game.away \in team_filter),
              [t \in GroupTeams(g) |-> 0])

(***************************************************************************)
(* order.rs: NonStrictGroupOrder, a sequence of sequences of TeamId.        *)
(***************************************************************************)
\* group.team_ids() (crate::group, not in the files): the teams of the
\* group in the iteration order of the group.
NonStrictInit(g) == <<g.teams>>

is_strict(o) == \A i \in DOMAIN o : Len(o[i]) = 1

extend_sub_order(o, team) ==
    LET new_inner == IF o = <<>> THEN <<>> ELSE Last(o)
        rest == IF o = <<>> THEN <<>> ELSE Front(o)
    IN  Append(rest, Append(new_inner, team))

add_sub_order(o, team) == Append(o, <<team>>)

\* Mutant of TryFromNonStrict: the first team of every non-empty subset.
TryFromNonStrict_truncating(o) ==
    LET kept == SelectSeq(o, LAMBDA x : x # <<>>)
    IN  [ok |-> TRUE, val |-> [i \in 1..Len(kept) |-> kept[i][1]]]

\* TryFrom<NonStrictGroupOrder> for GroupOrder.
TryFromNonStrict(o) ==
    IF is_strict(o)
    THEN [ok |-> TRUE, val |-> [i \in 1..Len(o) |-> o[i][1]]]
    ELSE [ok |-> FALSE, val |-> "NonStrictOrder"]

(***************************************************************************)
(* order.rs: SubOrdering for AllGroupStat and InternalGroupStat.            *)
(***************************************************************************)
\* slice::sort_by_key on a short slice: a stable insertion sort, ascending.
RECURSIVE InsertByKey(_, _)
InsertByKey(pre, x) ==
    IF pre = <<>> THEN <<x>>
    ELSE IF x[2] < Last(pre)[2]
         THEN Append(InsertByKey(Front(pre), x), Last(pre))
         ELSE Append(pre, x)

RECURSIVE SortByKey(_)
SortByKey(s) ==
    IF s = <<>> THEN <<>> ELSE InsertByKey(SortByKey(Front(s)), Last(s))

\* Mutant of FoldSubOrder: every team starts a new subset.
RECURSIVE FoldSubOrder_always_new(_, _, _)
FoldSubOrder_always_new(items, prev, o) ==
    IF items = <<>> THEN o
    ELSE LET x == Head(items)
         IN  FoldSubOrder_always_new(Tail(items), x[2], add_sub_order(o, x[1]))

\* The fold over team_stats.iter().rev(): a team whose value equals the
\* previous one extends the last subset, any other starts a new one.
RECURSIVE FoldSubOrder(_, _, _)
FoldSubOrder(items, prev, o) ==
    IF items = <<>> THEN o
    ELSE LET x == Head(items)
         IN  FoldSubOrder(Tail(items), x[2],
                          IF prev = x[2] THEN extend_sub_order(o, x[1])
                          ELSE add_sub_order(o, x[1]))

\* The body shared by both order functions, from the stats call on: a
\* panic of the stats call is passed on; teams without a value are
\* filtered out; team_stats[0] panics when nothing is left.
StatOrder(stats, ord) ==
    LET with_value == SelectSeq(ord, LAMBDA id : id \in DOMAIN stats.val)
        sorted == SortByKey([i \in 1..Len(with_value) |->
                                <<with_value[i], stats.val[with_value[i]]>>])
    IN  IF stats.panic \/ sorted = <<>> THEN [panic |-> TRUE, val |-> <<>>]
        ELSE [panic |-> FALSE,
              val |-> FoldSubOrder(Reverse(sorted), sorted[1][2], <<>>)]

AllGroupStatOrder(kind, g, ord) == StatOrder(team_stats(kind, g), ord)

\* Mutant of InternalGroupStatOrder: the games are not filtered.
InternalGroupStatOrder_all_games(kind, g, ord) ==
    StatOrder(team_stats(kind, g), ord)

InternalGroupStatOrder(kind, g, ord) ==
    StatOrder(internal_team_stats(kind, g, Range(ord)), ord)

SubOrder(rule, g, ord) ==
    IF rule.mode = "All" THEN AllGroupStatOrder(rule.stat, g, ord)
    ELSE InternalGroupStatOrder(rule.stat, g, ord)

\* Mutant of RefineFold: each subset's result is put before the accumulator.
RECURSIVE RefineFold_prepend(_, _, _, _)
RefineFold_prepend(rule, g, subs, a) ==
    IF subs = <<>> THEN [panic |-> FALSE, val |-> a, calls |-> <<>>]
    ELSE LET x == Head(subs)
             new_order == IF Len(x) > 1 THEN SubOrder(rule, g, x)
                          ELSE [panic |-> FALSE, val |-> <<x>>]
             invoked == IF Len(x) > 1 THEN <<x>> ELSE <<>>
         IN  IF new_order.panic
             THEN [panic |-> TRUE, val |-> <<>>, calls |-> invoked]
             ELSE LET r == RefineFold_prepend(rule, g, Tail(subs),
                                              new_order.val \o a)
                  IN  [r EXCEPT !.calls = invoked \o @]

\* Mutant of RefineFold: the rule is invoked on every subset.
RECURSIVE RefineFold_every_subset(_, _, _, _)
RefineFold_every_subset(rule, g, subs, a) ==
    IF subs = <<>> THEN [panic |-> FALSE, val |-> a, calls |-> <<>>]
    ELSE LET x == Head(subs)
             new_order == SubOrder(rule, g, x)
             invoked == <<x>>
         IN  IF new_order.panic
             THEN [panic |-> TRUE, val |-> <<>>, calls |-> invoked]
             ELSE LET r == RefineFold_every_subset(rule, g, Tail(subs),
                                                   a \o new_order.val)
                  IN  [r EXCEPT !.calls = invoked \o @]

\* One level of non_strict_ordering: the fold of the current rule over the
\* subsets of sub_order; panic when the rule panics on a subset.  calls
\* lists the subsets current_rule[0].order was invoked on, in order.
RECURSIVE RefineFold(_, _, _, _)
RefineFold(rule, g, subs, a) ==
    IF subs = <<>> THEN [panic |-> FALSE, val |-> a, calls |-> <<>>]
    ELSE LET x == Head(subs)
             new_order == IF Len(x) > 1 THEN SubOrder(rule, g, x)
                          ELSE [panic |-> FALSE, val |-> <<x>>]
             invoked == IF Len(x) > 1 THEN <<x>> ELSE <<>>
         IN  IF new_order.panic
             THEN [panic |-> TRUE, val |-> <<>>, calls |-> invoked]
             ELSE LET r == RefineFold(rule, g, Tail(subs), a \o new_order.val)
                  IN  [r EXCEPT !.calls = invoked \o @]

\* Mutant of Terminal: the recursion stops only when no rule is left.
Terminal_rules_empty(sub_order, rs) == rs = <<>>

\* non_strict_ordering's terminal condition, checked before each rule.
Terminal(sub_order, rs) == is_strict(sub_order) \/ rs = <<>>

Rule(mode, stat) == [mode |-> mode, stat |-> stat]

\* Mutant of fifa_2018_rules: goal difference before points.
fifa_2018_rules_goal_diff_first ==
    << Rule("All", "GoalDiff"), Rule("All", "GroupPoint"),
       Rule("All", "GoalCount"), Rule("Internal", "GroupPoint"),
       Rule("Internal", "GoalDiff"), Rule("Internal", "GoalCount"),
       Rule("All", "FifaFairPlayValue") >>

fifa_2018_rules ==
    << Rule("All", "GroupPoint"), Rule("All", "GoalDiff"),
       Rule("All", "GoalCount"), Rule("Internal", "GroupPoint"),
       Rule("Internal", "GoalDiff"), Rule("Internal", "GoalCount"),
       Rule("All", "FifaFairPlayValue") >>

euro_2020_rules ==
    << Rule("All", "GroupPoint"), Rule("Internal", "GroupPoint"),
       Rule("Internal", "GoalDiff"), Rule("Internal", "GoalCount"),
       Rule("All", "GoalDiff"), Rule("All", "NumWins"),
       Rule("Internal", "UefaFairPlayValue") >>

(***************************************************************************)
(* order.rs: Tiebreaker and its three implementations.                      *)
(* A tiebreaker is [kind, table, ranking_map]; cmp answers "Less", "Equal", *)
(* "Greater", or "panic" when the lookup it makes fails.                    *)
(***************************************************************************)
\* Mutant of ManualCmp: a missing pair is answered from the reversed pair.
ManualCmp_symmetric(table, id_1, id_2) ==
    IF <<id_1, id_2>> \in DOMAIN table THEN table[<<id_1, id_2>>]
    ELSE IF <<id_2, id_1>> \in DOMAIN table
         THEN (IF table[<<id_2, id_1>>] = "Less" THEN "Greater" ELSE "Less")
         ELSE "panic"

\* Mutant of ManualCmp: a missing pair gets a default outcome.
ManualCmp_default(table, id_1, id_2) ==
    IF <<id_1, id_2>> \in DOMAIN table THEN table[<<id_1, id_2>>]
    ELSE "Equal"

ManualCmp(table, id_1, id_2) ==
    IF <<id_1, id_2>> \in DOMAIN table THEN table[<<id_1, id_2>>]
    ELSE "panic"

\* draw: whether rng.gen::<f32>() > 0.5 in this comparison.
RandomCmp(draw) == IF draw THEN "Less" ELSE "Greater"

\* Mutant of UefaCmp: the ranks are compared without the switch.
UefaCmp_unswitched(ranking_map, id_1, id_2) ==
    IF id_1 \notin DOMAIN ranking_map \/ id_2 \notin DOMAIN ranking_map
    THEN "panic"
    ELSE LET rank_1 == ranking_map[id_1]
             rank_2 == ranking_map[id_2]
         IN  IF rank_1 < rank_2 THEN "Less"
             ELSE IF rank_1 > rank_2 THEN "Greater"
             ELSE "Equal"

UefaCmp(ranking_map, id_1, id_2) ==
    IF id_1 \notin DOMAIN ranking_map \/ id_2 \notin DOMAIN ranking_map
    THEN "panic"
    ELSE LET rank_1 == ranking_map[id_1]
             rank_2 == ranking_map[id_2]
         IN  IF rank_2 < rank_1 THEN "Less"
             ELSE IF rank_2 > rank_1 THEN "Greater"
             ELSE "Equal"

\* Mutant of Cmp: equal ranks are settled by a draw.
Cmp_draw_on_equal(t, id_1, id_2, draw) ==
    CASE t.kind = "Manual" -> ManualCmp(t.table, id_1, id_2)
      [] t.kind = "Random" -> RandomCmp(draw)
      [] t.kind = "UefaRanking" ->
            IF UefaCmp(t.ranking_map, id_1, id_2) = "Equal"
            THEN RandomCmp(draw)
            ELSE UefaCmp(t.ranking_map, id_1, id_2)

Cmp(t, id_1, id_2, draw) ==
    CASE t.kind = "Manual" -> ManualCmp(t.table, id_1, id_2)
      [] t.kind = "Random" -> RandomCmp(draw)
      [] t.kind = "UefaRanking" -> UefaCmp(t.ranking_map, id_1, id_2)

\* slice::sort_by on a short slice is an insertion sort: the element at
\* the tail is compared with its left neighbours, from the nearest on,
\* and moves left while cmp says Less.  cs lists the pairs cmp was called
\* on so far in this sort; the next comparison takes the next draw.
RECURSIVE InsertTail(_, _, _, _, _)
InsertTail(t, pre, x, draws, cs) ==
    IF pre = <<>> THEN [panic |-> FALSE, val |-> <<x>>, cmps |-> cs]
    ELSE LET c == Cmp(t, x, Last(pre), draws[Len(cs) + 1])
             cs1 == Append(cs, <<x, Last(pre)>>)
         IN  IF c = "panic" THEN [panic |-> TRUE, val |-> <<>>, cmps |-> cs1]
             ELSE IF c = "Less"
             THEN LET r == InsertTail(t, Front(pre), x, draws, cs1)
                  IN  IF r.panic THEN r
                      ELSE [panic |-> FALSE, val |-> Append(r.val, Last(pre)),
                            cmps |-> r.cmps]
             ELSE [panic |-> FALSE, val |-> Append(pre, x), cmps |-> cs1]

RECURSIVE SortBy(_, _, _, _, _)
SortBy(t, sorted, rest, draws, cs) ==
    IF rest = <<>> THEN [panic |-> FALSE, val |-> sorted, cmps |-> cs]
    ELSE LET r == InsertTail(t, sorted, Head(rest), draws, cs)
         IN  IF r.panic THEN r
             ELSE SortBy(t, r.val, Tail(rest), draws, r.cmps)

\* Tiebreaker::order_sub_group: sort ascending by cmp, then reverse.
order_sub_group(t, ord, draws) ==
    LET tmp_order == IF Len(ord) < 2
                     THEN [panic |-> FALSE, val |-> ord, cmps |-> <<>>]
                     ELSE SortBy(t, <<ord[1]>>, Tail(ord), draws, <<>>)
    IN  IF tmp_order.panic THEN tmp_order
        ELSE [tmp_order EXCEPT !.val = Reverse(tmp_order.val)]

\* Mutant of TiebreakStep: teams are put before the accumulator.
TiebreakStep_prepend(t, a, x, draws) ==
    IF Len(x) = 1 THEN [panic |-> FALSE, val |-> <<x[1]>> \o a, cmps |-> <<>>]
    ELSE LET sub == order_sub_group(t, x, draws)
         IN  IF sub.panic THEN [panic |-> TRUE, val |-> a, cmps |-> sub.cmps]
             ELSE [panic |-> FALSE, val |-> sub.val \o a, cmps |-> sub.cmps]

\* One step of the fold of Tiebreaker::order over the subsets.
TiebreakStep(t, a, x, draws) ==
    IF Len(x) = 1 THEN [panic |-> FALSE, val |-> Append(a, x[1]), cmps |-> <<>>]
    ELSE LET sub == order_sub_group(t, x, draws)
         IN  IF sub.panic THEN [panic |-> TRUE, val |-> a, cmps |-> sub.cmps]
             ELSE [panic |-> FALSE, val |-> a \o sub.val, cmps |-> sub.cmps]

\* The draws a sort of n teams can ask for: at most n(n-1)/2 comparisons.
Draws(n) == [1..((n * (n - 1)) \div 2) -> BOOLEAN]

\* Mutant of try_new: any instead of all.
try_new_any(gs, ranking_map) ==
    \E i \in DOMAIN gs : \E x \in Range(gs[i].teams) : x \in DOMAIN ranking_map

\* UefaRanking::try_new: Ok iff every team of every group has a rank.
try_new(gs, ranking_map) ==
    \A i \in DOMAIN gs : \A x \in Range(gs[i].teams) : x \in DOMAIN ranking_map

(***************************************************************************)
(* Inputs.  A group of n teams is a round robin: each fixture is either     *)
(* unplayed or played with a score and a fair-play score; the teams of the  *)
(* group are the teams of its games, in some iteration order.               *)
(***************************************************************************)
RECURSIVE Fixtures(_, _, _)
Fixtures(i, j, n) ==
    IF i >= n THEN <<>>
    ELSE IF j > n THEN Fixtures(i + 1, i + 2, n)
    ELSE <<<<i, j>>>> \o Fixtures(i, j + 1, n)

Played(fx, goals, cards) ==
    {[home |-> fx[1], away |-> fx[2], score |-> <<h, a>>, fair_play |-> fp] :
        h \in 0..goals, a \in 0..goals,
        fp \in {c \in (0..cards) \X (0..cards) : c[1] + c[2] <= cards}}

RECURSIVE GameSeqs(_, _, _)
GameSeqs(fxs, goals, cards) ==
    IF fxs = <<>> THEN {<<>>}
    ELSE LET rest == GameSeqs(Tail(fxs), goals, cards)
         IN  rest \cup {<<g>> \o r : g \in Played(Head(fxs), goals, cards),
                                      r \in rest}

\* group is a round robin of some size, in some iteration order.
GroupIn(sizes, goals, cards) ==
    \E n \in sizes :
        \E gs \in GameSeqs(Fixtures(1, 2, n), goals, cards) :
            \E p \in Perms(1..n) :
                group = [teams |-> p, played_games |-> gs]

\* A group has no team (no game) or at least the two teams of a game.
GroupSizes == {0} \cup 2..NumTeams

NoTable == <<>>

RandomTb == [kind |-> "Random", table |-> NoTable, ranking_map |-> <<>>]

ManualTb(table) == [kind |-> "Manual", table |-> table, ranking_map |-> <<>>]

UefaTb(ranking_map) ==
    [kind |-> "UefaRanking", table |-> NoTable, ranking_map |-> ranking_map]

\* Manual tables: at most MaxEntries outcomes, each for an ordered pair.
Pairs(teams) == {p \in teams \X teams : p[1] # p[2]}

ManualTables(teams) ==
    UNION {[S -> {"Less", "Greater"}] :
              S \in {T \in SUBSET Pairs(teams) : Cardinality(T) <= MaxEntries}}

\* Rank maps over some of the teams.
RankMaps(teams) == UNION {[S -> 1..MaxRank] : S \in SUBSET teams}

(***************************************************************************)
(* The call of order_group, step by step.                                   *)
(***************************************************************************)
\* Building the rules: UefaRanking::try_new fails on a missing rank, the
\* other tiebreakers are built as they are.
Construct ==
    /\ pc = "new"
    /\ pc' = IF tb.kind = "UefaRanking" /\ ~try_new(groups, tb.ranking_map)
             THEN "err" ELSE "ready"
    /\ UNCHANGED <<group, groups, rules, tb, remaining, order, todo, acc,
                   result, hist, call, first, calls, cmps>>

\* order_group is entered: non_strict_ordering starts from init(group)
\* with all the rules.
Enter ==
    /\ pc = "ready"
    /\ order' = NonStrictInit(group)
    /\ remaining' = rules
    /\ hist' = <<NonStrictInit(group)>>
    /\ pc' = "rules"
    /\ todo' = <<>>
    /\ acc' = <<>>
    /\ result' = <<>>
    /\ calls' = <<>>
    /\ cmps' = <<>>
    /\ UNCHANGED <<group, groups, rules, tb, call, first>>

\* non_strict_ordering, else branch: the first remaining rule is folded
\* over the subsets and the recursion goes on with the other rules.
ApplyRule ==
    /\ pc = "rules"
    /\ ~Terminal(order, remaining)
    /\ LET sub_order == RefineFold(Head(remaining), group, order, <<>>)
       IN  /\ calls' = Append(calls, sub_order.calls)
           /\ IF sub_order.panic
              THEN /\ pc' = "panic"
                   /\ UNCHANGED <<order, remaining, hist>>
              ELSE /\ order' = sub_order.val
                   /\ remaining' = Tail(remaining)
                   /\ hist' = Append(hist, sub_order.val)
                   /\ pc' = "rules"
    /\ UNCHANGED <<group, groups, rules, tb, todo, acc, result, call, first,
                   cmps>>

\* non_strict_ordering returns a strict order: order_group casts it.
Cast ==
    /\ pc = "rules"
    /\ Terminal(order, remaining)
    /\ is_strict(order)
    /\ LET cast == TryFromNonStrict(order)
       IN  IF cast.ok
           THEN /\ result' = cast.val
                /\ pc' = "done"
           ELSE /\ result' = <<>>
                /\ pc' = "panic"
    /\ UNCHANGED <<group, groups, rules, tb, remaining, order, todo, acc,
                   hist, call, first, calls, cmps>>

\* non_strict_ordering returns a non-strict order: the tiebreaker starts
\* its fold over the subsets.
StartTiebreak ==
    /\ pc = "rules"
    /\ Terminal(order, remaining)
    /\ ~is_strict(order)
    /\ todo' = order
    /\ acc' = <<>>
    /\ pc' = "tiebreak"
    /\ UNCHANGED <<group, groups, rules, tb, remaining, order, result, hist,
                   call, first, calls, cmps>>

\* Tiebreaker::order, one subset: a singleton is pushed, a tied subset is
\* sorted by cmp (which may panic) and spliced in.
TiebreakFold ==
    /\ pc = "tiebreak"
    /\ todo # <<>>
    /\ \E draws \in Draws(Len(Head(todo))) :
          LET step == TiebreakStep(tb, acc, Head(todo), draws)
          IN  /\ cmps' = cmps \o step.cmps
              /\ IF step.panic
                 THEN /\ pc' = "panic"
                      /\ UNCHANGED <<todo, acc>>
                 ELSE /\ acc' = step.val
                      /\ todo' = Tail(todo)
                      /\ pc' = "tiebreak"
    /\ UNCHANGED <<group, groups, rules, tb, remaining, order, result, hist,
                   call, first, calls>>

\* Tiebreaker::order returns the GroupOrder it built.
TiebreakReturn ==
    /\ pc = "tiebreak"
    /\ todo = <<>>
    /\ result' = acc
    /\ pc' = "done"
    /\ UNCHANGED <<group, groups, rules, tb, remaining, order, todo, acc,
                   hist, call, first, calls, cmps>>

\* The caller calls order_group again on the same group and rules.
Recall ==
    /\ pc \in {"done", "panic"}
    /\ call = 1
    /\ first' = [pc |-> pc, result |-> result]
    /\ call' = 2
    /\ pc' = "ready"
    /\ UNCHANGED <<group, groups, rules, tb, remaining, order, todo, acc,
                   result, hist, calls, cmps>>

Next ==
    \/ Construct
    \/ Enter
    \/ ApplyRule
    \/ Cast
    \/ StartTiebreak
    \/ TiebreakFold
    \/ TiebreakReturn

InitCall ==
    /\ pc = "new"
    /\ remaining = <<>>
    /\ order = <<>>
    /\ todo = <<>>
    /\ acc = <<>>
    /\ result = <<>>
    /\ hist = <<>>
    /\ call = 1
    /\ first = [pc |-> "none", result |-> <<>>]
    /\ calls = <<>>
    /\ cmps = <<>>

RuleLists == {<<>>, fifa_2018_rules, euro_2020_rules}

Init ==
    /\ GroupIn(GroupSizes, MaxGoals, 0)
    /\ groups = <<group>>
    /\ rules \in RuleLists
    /\ tb \in {RandomTb}
             \cup {UefaTb(m) : m \in RankMaps(GroupTeams(group))}
             \cup {ManualTb(t) : t \in ManualTables(GroupTeams(group))}
    /\ InitCall

Spec == Init /\ [][Next]_vars

\* euro_2020 with a UefaRanking built by try_new over the group alone or
\* over the group and another group of the tournament.
OtherGroup == [teams |-> <<NumTeams + 1, NumTeams + 2>>, played_games |-> <<>>]

InitUefa ==
    /\ GroupIn(GroupSizes, MaxGoals, 0)
    /\ groups \in {<<group>>, <<OtherGroup, group>>}
    /\ rules = euro_2020_rules
    /\ tb \in {UefaTb(m) : m \in RankMaps(GroupTeams(group)
                                            \cup GroupTeams(OtherGroup))}
    /\ InitCall

SpecUefa == InitUefa /\ [][Next]_vars

\* fifa_2018: its rule list with the Random tiebreaker.
InitFifa ==
    /\ GroupIn(GroupSizes, FifaMaxGoals, MaxCards)
    /\ groups = <<group>>
    /\ rules = fifa_2018_rules
    /\ tb = RandomTb
    /\ InitCall

SpecFifa == InitFifa /\ [][Next]_vars

\* Tiebreaker::order applied to any sequence of disjoint non-empty subsets,
\* strict ones included, with any tiebreaker (a UefaRanking built directly
\* from a rank map, as the unit test does).
RECURSIVE Splits(_)
Splits(p) ==
    IF p = <<>> THEN {<<>>}
    ELSE UNION {{<<SubSeq(p, 1, n)>> \o r : r \in Splits(SubSeq(p, n + 1, Len(p)))} :
                   n \in 1..Len(p)}

NonStrictOrders(teams) ==
    UNION {Splits(p) : p \in UNION {Perms(S) : S \in SUBSET teams}}

InitTb ==
    /\ order \in NonStrictOrders(TeamIds)
    /\ group = [teams |-> Flatten(order), played_games |-> <<>>]
    /\ groups = <<group>>
    /\ rules = <<>>
    /\ tb \in {RandomTb}
             \cup {UefaTb(m) : m \in RankMaps(TeamIds)}
             \cup {ManualTb(t) : t \in ManualTables(TeamIds)}
    /\ pc = "tiebreak"
    /\ remaining = <<>>
    /\ todo = order
    /\ acc = <<>>
    /\ result = <<>>
    /\ hist = <<order>>
    /\ call = 1
    /\ first = [pc |-> "none", result |-> <<>>]
    /\ calls = <<>>
    /\ cmps = <<>>

NextTb == TiebreakFold \/ TiebreakReturn

SpecTb == InitTb /\ [][NextTb]_vars

\* GroupOrder::try_from applied to a NonStrictGroupOrder.
TryInto ==
    /\ pc = "convert"
    /\ LET cast == TryFromNonStrict(order)
       IN  IF cast.ok
           THEN /\ result' = cast.val
                /\ pc' = "converted"
           ELSE /\ result' = <<>>
                /\ pc' = cast.val
    /\ UNCHANGED <<group, groups, rules, tb, remaining, order, todo, acc,
                   hist, call, first, calls, cmps>>

\* Either a call of order_group (random tiebreaker), or a conversion of any
\* sequence of subsets, the sequence of one empty subset included.
InitCast ==
    \/ /\ GroupIn(GroupSizes, MaxGoals, 0)
       /\ groups = <<group>>
       /\ rules \in RuleLists
       /\ tb = RandomTb
       /\ InitCall
    \/ /\ order \in NonStrictOrders(TeamIds) \cup {<< <<>> >>}
       /\ group = [teams |-> Flatten(order), played_games |-> <<>>]
       /\ groups = <<group>>
       /\ rules = <<>>
       /\ tb = RandomTb
       /\ pc = "convert"
       /\ remaining = <<>>
       /\ todo = <<>>
       /\ acc = <<>>
       /\ result = <<>>
       /\ hist = <<order>>
       /\ call = 1
       /\ first = [pc |-> "none", result |-> <<>>]
       /\ calls = <<>>
       /\ cmps = <<>>

NextCast == Next \/ TryInto

SpecCast == InitCast /\ [][NextCast]_vars

\* A call of SubOrdering::order of one rule on a list of teams.
Order ==
    /\ pc = "call"
    /\ LET new_order == SubOrder(Head(rules), group, order[1])
       IN  IF new_order.panic
           THEN /\ pc' = "panic"
                /\ hist' = hist
           ELSE /\ pc' = "ordered"
                /\ hist' = Append(hist, new_order.val)
    /\ UNCHANGED <<group, groups, rules, tb, remaining, order, todo, acc,
                   result, call, first, calls, cmps>>

\* A call of UnaryStat::team_stats for the rule's statistic; acc holds the
\* mapping returned (the accumulator of the fold, when it panicked).
TeamStats ==
    /\ pc = "call"
    /\ LET stats == team_stats(Head(rules).stat, group)
       IN  /\ acc' = stats.val
           /\ pc' = IF stats.panic THEN "panic" ELSE "stats"
    /\ UNCHANGED <<group, groups, rules, tb, remaining, order, todo, result,
                   hist, call, first, calls, cmps>>

\* The two functions called directly: any group, any rule of the presets,
\* any list of distinct teams (teams outside the group and the empty list
\* included).
InitFn ==
    /\ GroupIn(GroupSizes, MaxGoals, 0)
    /\ groups = <<group>>
    /\ rules \in {<<r>> : r \in Range(fifa_2018_rules) \cup Range(euro_2020_rules)}
    /\ order \in {<<p>> : p \in UNION {Perms(S) : S \in SUBSET TeamIds}}
    /\ tb = RandomTb
    /\ pc = "call"
    /\ remaining = <<>>
    /\ todo = <<>>
    /\ acc = <<>>
    /\ result = <<>>
    /\ hist = <<order>>
    /\ call = 1
    /\ first = [pc |-> "none", result |-> <<>>]
    /\ calls = <<>>
    /\ cmps = <<>>

NextFn == Order \/ TeamStats

SpecFn == InitFn /\ [][NextFn]_vars

\* Two calls of order_group on the same inputs.
NextTwice == Next \/ Recall

SpecTwice == Init /\ [][NextTwice]_vars

(***************************************************************************)
(* Properties.                                                              *)
(***************************************************************************)
NoDuplicates(s) == \A i, j \in DOMAIN s : i # j => s[i] # s[j]

\* The teams with a computed statistic value.
TeamsWithValue(g) == DOMAIN team_stats("GroupPoint", g).val

\* C1: whenever order_group returns, the GroupOrder holds no team twice,
\* its length is the number of teams with a computed statistic value and
\* its teams are the teams of the group.
C1_StrictOrderOfAllTeams ==
    pc = "done" =>
        /\ NoDuplicates(result)
        /\ Len(result) = Cardinality(TeamsWithValue(group))
        /\ Range(result) = GroupTeams(group)

\* A call that applied every rule of a preset, reached the random
\* tiebreaker with all three teams in one subset and returned.
C1_Witness ==
    /\ pc = "done"
    /\ tb.kind = "Random"
    /\ rules = fifa_2018_rules
    /\ Len(hist) = Len(rules) + 1
    /\ Len(order) = 1
    /\ Len(result) = 3

\* Position of subset i of a sequence o: one more than the number of teams
\* in the subsets before it.
PosOf(o, i) == Len(Flatten(SubSeq(o, 1, i - 1))) + 1

\* The decided teams of o, each with its position.
Decided(o) == {<<o[i][1], PosOf(o, i)>> : i \in {j \in DOMAIN o : Len(o[j]) = 1}}

\* C3: a team in a singleton at position p after a rule application stays
\* in a singleton at position p after every later rule application, is at
\* position p of what the tiebreaker builds and of the returned GroupOrder.
C3_DecidedTeamsKeepPosition ==
    \A k \in 2..Len(hist) : \A d \in Decided(hist[k]) :
        /\ \A k2 \in k..Len(hist) : d \in Decided(hist[k2])
        /\ (pc = "tiebreak" /\ Len(acc) >= d[2]) => acc[d[2]] = d[1]
        /\ pc = "done" => result[d[2]] = d[1]

\* A call in which a team was decided by a rule while others were still
\* tied, more rules were applied and the tiebreaker finished the order.
C3_Witness ==
    /\ pc = "done"
    /\ ~is_strict(order)
    /\ \E k \in 2..Len(hist) :
          /\ k < Len(hist)
          /\ Decided(hist[k]) # {}
          /\ hist[k] # hist[Len(hist)]

\* C2: after init and after each rule application the subsets are
\* non-empty, pairwise disjoint and their union is the team set of the group.
C2_Partition ==
    \A k \in DOMAIN hist :
        LET o == hist[k]
        IN  /\ \A i \in DOMAIN o : o[i] # <<>>
            /\ NoDuplicates(Flatten(o))
            /\ Range(Flatten(o)) = GroupTeams(group)

\* C4: two calls on the same group and rules end alike (the same
\* GroupOrder, or both in a panic) unless the tiebreaker is Random and was
\* reached with a non-strict sequence.
C4_Deterministic ==
    (call = 2 /\ pc \in {"done", "panic"}
     /\ [pc |-> pc, result |-> result] # first)
        => (tb.kind = "Random" /\ ~is_strict(order))

\* A second call with a rank tiebreaker that had to order tied teams and
\* returned what the first call returned.
C4_Witness ==
    /\ call = 2
    /\ pc = "done"
    /\ tb.kind = "UefaRanking"
    /\ ~is_strict(order)
    /\ first = [pc |-> "done", result |-> result]

\* Index of a team in a GroupOrder (0 when it is not there).
IndexOf(s, t) == IF t \in Range(s) THEN CHOOSE i \in DOMAIN s : s[i] = t ELSE 0

Before(s, a, b) == IndexOf(s, a) > 0 /\ IndexOf(s, b) > 0 /\ IndexOf(s, a) < IndexOf(s, b)

\* C5: Tiebreaker::order on a sequence of singletons never panics, builds
\* the teams in the order of the sequence and returns exactly them.
C5_TiebreakerIdentityOnStrict ==
    is_strict(order) =>
        /\ pc # "panic"
        /\ acc = Flatten(SubSeq(order, 1, Len(order) - Len(todo)))
        /\ pc = "done" => result = Flatten(order)

\* The tiebreaker, a manual table without entries, has returned three
\* decided teams.
C5_Witness ==
    /\ pc = "done"
    /\ is_strict(order)
    /\ Len(order) = 3
    /\ tb.kind = "Manual"
    /\ tb.table = NoTable

\* C10: with rank(a) < rank(b), UefaRanking's cmp(a, b) is Greater, and if
\* a and b are in the same tied subset, a precedes b in the order built.
C10_LowerRankFirst ==
    tb.kind = "UefaRanking" =>
        \A a, b \in DOMAIN tb.ranking_map :
            tb.ranking_map[a] < tb.ranking_map[b] =>
                /\ Cmp(tb, a, b, TRUE) = "Greater"
                /\ Cmp(tb, a, b, FALSE) = "Greater"
                /\ (pc = "done"
                    /\ \E i \in DOMAIN order : {a, b} \subseteq Range(order[i]))
                        => Before(result, a, b)

\* Three tied teams of which the last has the best rank have been ordered.
C10_Witness ==
    /\ pc = "done"
    /\ tb.kind = "UefaRanking"
    /\ Len(order) = 1
    /\ Len(order[1]) = 3
    /\ tb.ranking_map[order[1][3]] < tb.ranking_map[order[1][1]]
    /\ tb.ranking_map[order[1][3]] < tb.ranking_map[order[1][2]]

\* Some team of some group handed to try_new has no rank.
RankMissing ==
    \E i \in DOMAIN groups : \E x \in Range(groups[i].teams) :
        x \notin DOMAIN tb.ranking_map

\* C6: try_new fails exactly when a team of a supplied group has no rank,
\* and ordering one of the supplied groups never panics in a rank lookup.
C6_MissingRankFailsConstruction ==
    /\ pc # "new" => (pc = "err" <=> RankMissing)
    /\ pc # "panic"

\* Construction failed although every team of the group to order has a
\* rank: a team of the other supplied group has none.
C6_Witness ==
    /\ pc = "err"
    /\ Len(groups) = 2
    /\ GroupTeams(group) # {}
    /\ GroupTeams(group) \subseteq DOMAIN tb.ranking_map

\* Teams a and b are in one subset of the sequence the rules left and the
\* manual table has no outcome for them, in either direction.
TiedWithoutEntry(a, b) ==
    /\ a # b
    /\ \E i \in DOMAIN order : {a, b} \subseteq Range(order[i])
    /\ <<a, b>> \notin DOMAIN tb.table
    /\ <<b, a>> \notin DOMAIN tb.table

\* C7 as stated: with a Manual tiebreaker, order_group does not return when
\* two teams still tied after all rules have no entry in the table.
C7_AnyTiedPairWithoutEntryPanics ==
    (tb.kind = "Manual" /\ pc = "done") =>
        ~ \E a, b \in GroupTeams(group) : TiedWithoutEntry(a, b)

\* C7, amended: with a Manual tiebreaker, order_group does not return when
\* a subset of exactly two teams is left tied by the rules and the table
\* has no entry for the two; the call panics when the fold reaches it.
C7_TwoTeamTieWithoutEntryPanics ==
    tb.kind = "Manual" =>
        /\ pc = "done" =>
              ~ \E i \in DOMAIN order :
                    /\ Len(order[i]) = 2
                    /\ TiedWithoutEntry(order[i][1], order[i][2])
        /\ (pc = "tiebreak" /\ todo # <<>> /\ Len(Head(todo)) = 2
            /\ TiedWithoutEntry(Head(todo)[1], Head(todo)[2]))
              => \A draws \in Draws(2) :
                    TiebreakStep(tb, acc, Head(todo), draws).panic

\* The call panicked at a subset of two teams without an entry, after the
\* rules of a preset had decided a third team.
C7_Witness ==
    /\ pc = "panic"
    /\ tb.kind = "Manual"
    /\ rules = fifa_2018_rules
    /\ Len(order) = 2
    /\ Len(Head(todo)) = 2
    /\ TiedWithoutEntry(Head(todo)[1], Head(todo)[2])

(***************************************************************************)
(* The standings of a team, counted game by game from the results.          *)
(***************************************************************************)
GamesOf(g) == {g.played_games[i] : i \in DOMAIN g.played_games}

\* Goals a team scored and conceded in a game it played.
ScoredIn(game, t) == IF game.home = t THEN game.score[1] ELSE game.score[2]

ConcededIn(game, t) == IF game.home = t THEN game.score[2] ELSE game.score[1]

GamesOfTeam(g, t) == {game \in GamesOf(g) : t \in {game.home, game.away}}

RECURSIVE SumOver(_, _)
SumOver(S, f) ==
    IF S = {} THEN 0
    ELSE LET x == CHOOSE y \in S : TRUE IN f[x] + SumOver(S \ {x}, f)

Points(g, t) ==
    3 * Cardinality({game \in GamesOfTeam(g, t) :
                        ScoredIn(game, t) > ConcededIn(game, t)})
    + Cardinality({game \in GamesOfTeam(g, t) :
                        ScoredIn(game, t) = ConcededIn(game, t)})

GoalsScored(g, t) ==
    SumOver(GamesOfTeam(g, t), [game \in GamesOfTeam(g, t) |-> ScoredIn(game, t)])

GoalsConceded(g, t) ==
    SumOver(GamesOfTeam(g, t), [game \in GamesOfTeam(g, t) |-> ConcededIn(game, t)])

\* a and b are level on points, goal difference and goals scored.
Level(g, a, b) ==
    /\ Points(g, a) = Points(g, b)
    /\ GoalsScored(g, a) - GoalsConceded(g, a)
          = GoalsScored(g, b) - GoalsConceded(g, b)
    /\ GoalsScored(g, a) = GoalsScored(g, b)

\* a won the games played between a and b, and there is one.
Beat(g, a, b) ==
    LET between == {game \in GamesOfTeam(g, a) : b \in {game.home, game.away}}
    IN  /\ between # {}
        /\ \A game \in between : ScoredIn(game, a) > ConcededIn(game, a)

\* The case of C8: exactly a and b are level, and a beat b.
HeadToHead(g, a, b) ==
    /\ a # b
    /\ Level(g, a, b)
    /\ \A c \in GroupTeams(g) \ {a, b} : ~Level(g, a, c)
    /\ Beat(g, a, b)

\* C8: under fifa_2018, when exactly a and b are level on points, goal
\* difference and goals scored and a beat b, the rules leave a and b in
\* singletons, a first, and a precedes b in the returned order.
C8_HeadToHeadDecides ==
    (rules = fifa_2018_rules /\ pc \in {"tiebreak", "done"}) =>
        \A a, b \in GroupTeams(group) :
            HeadToHead(group, a, b) =>
                /\ \E i, j \in DOMAIN order :
                      i < j /\ order[i] = <<a>> /\ order[j] = <<b>>
                /\ pc = "done" => Before(result, a, b)

\* order_group returned for a group in which exactly two teams were level
\* and one had beaten the other.
C8_Witness ==
    /\ pc = "done"
    /\ rules = fifa_2018_rules
    /\ \E a, b \in GroupTeams(group) : HeadToHead(group, a, b)

\* All point totals of the group are pairwise distinct.
DistinctPoints(g) ==
    \A a, b \in GroupTeams(g) : a # b => Points(g, a) # Points(g, b)

\* C9: under fifa_2018 a team with more points precedes every team with
\* fewer; when all point totals differ, the first rule alone makes the
\* order strict, no later rule is applied (in a group with teams), no
\* subset is left to the tiebreaker and the result is the teams in
\* descending points order.
C9_PointsFirst ==
    (rules = fifa_2018_rules /\ pc = "done") =>
        /\ \A a, b \in GroupTeams(group) :
              Points(group, a) > Points(group, b) => Before(result, a, b)
        /\ DistinctPoints(group) =>
              /\ \A i \in DOMAIN order : Len(order[i]) <= 1
              /\ GroupTeams(group) # {} => (Len(hist) = 2 /\ is_strict(order))
              /\ result = Flatten(hist[2])
              /\ \A i, j \in DOMAIN result :
                    i < j => Points(group, result[i]) > Points(group, result[j])

\* order_group returned for three teams with three different point totals,
\* the team with the most points having scored fewer goals than the next.
C9_Witness ==
    /\ pc = "done"
    /\ rules = fifa_2018_rules
    /\ Len(result) = 3
    /\ DistinctPoints(group)
    /\ GoalsScored(group, result[1]) < GoalsScored(group, result[2])

\* C11: the rules are applied one at a time in list order, each only to a
\* sequence that is not strict; the tiebreaker is entered and compares only
\* when the sequence is not strict and no rule is left; a strict sequence is
\* returned as it is, without any comparison of the tiebreaker.
C11_Greedy ==
    pc \in {"rules", "tiebreak", "done", "panic"} =>
        /\ remaining = SubSeq(rules, Len(hist), Len(rules))
        /\ \A k \in 1..(Len(hist) - 1) :
              /\ ~is_strict(hist[k])
              /\ hist[k + 1] = RefineFold(rules[k], group, hist[k], <<>>).val
        /\ (pc = "tiebreak" \/ cmps # <<>>) =>
              (~is_strict(order) /\ remaining = <<>>)
        /\ is_strict(order) =>
              /\ cmps = <<>>
              /\ pc \notin {"tiebreak", "panic"}
              /\ pc = "done" => result = Flatten(order)

\* order_group returned after two rules of a preset made the order of three
\* teams strict: the other rules and the tiebreaker were not used.
C11_Witness ==
    /\ pc = "done"
    /\ Len(result) = 3
    /\ is_strict(order)
    /\ Len(hist) = 3
    /\ remaining # <<>>
    /\ cmps = <<>>

\* C12: the conversion fails with NonStrictOrder, giving no order, exactly
\* when some subset is not a singleton, and otherwise gives the one team of
\* each subset; order_group (here with the random tiebreaker, which cannot
\* panic) never panics, and from a strict sequence it returns the teams of
\* the singletons.
C12_ConversionTyped ==
    /\ pc = "NonStrictOrder" => (~is_strict(order) /\ result = <<>>)
    /\ pc = "converted" =>
          /\ is_strict(order)
          /\ Len(result) = Len(order)
          /\ \A i \in DOMAIN order : order[i] = <<result[i]>>
    /\ pc # "panic"
    /\ (pc = "done" /\ is_strict(order)) =>
          /\ Len(result) = Len(order)
          /\ \A i \in DOMAIN order : order[i] = <<result[i]>>

\* The conversion of a sequence with one decided team and two tied teams
\* failed.
C12_Witness ==
    /\ pc = "NonStrictOrder"
    /\ Len(order) = 2
    /\ Len(order[1]) = 1
    /\ Len(order[2]) = 2

\* C13: under euro_2020, of two teams still in one subset after points, the
\* three head-to-head criteria and goal difference in all group matches
\* (the first five rules), the one with more goals scored in all group
\* matches precedes the other in the returned order.
C13_GoalsScoredBeforeWins ==
    (rules = euro_2020_rules /\ pc = "done" /\ Len(hist) >= 6) =>
        \A i \in DOMAIN hist[6] : \A a, b \in Range(hist[6][i]) :
            GoalsScored(group, a) > GoalsScored(group, b)
                => Before(result, a, b)

\* What the k-th rule application makes of subset x: a subset of one team
\* (or none) as it is, a larger one as the rule orders it.
PieceOf(k, x) ==
    IF Len(x) > 1 THEN SubOrder(rules[k], group, x).val ELSE <<x>>

\* C14: in every rule application the rule's order function is invoked on
\* exactly the subsets of two or more teams, in their order; a subset of one
\* team is kept as it is at its position; and the new sequence is the
\* concatenation of the per-subset results in the order of the subsets, the
\* teams of each subset staying in the positions the subset occupied.
C14_SingletonsPassThrough ==
    \A k \in DOMAIN calls :
        /\ k < Len(hist) \/ pc = "panic"
        /\ \A j \in DOMAIN calls[k] : Len(calls[k][j]) >= 2
        /\ calls[k] = SelectSeq(hist[k], LAMBDA x : Len(x) >= 2)
        /\ k < Len(hist) =>
              /\ Decided(hist[k]) \subseteq Decided(hist[k + 1])
              /\ hist[k + 1]
                    = Flatten([i \in DOMAIN hist[k] |-> PieceOf(k, hist[k][i])])
              /\ \A i \in DOMAIN hist[k] :
                    Range(SubSeq(Flatten(hist[k + 1]), PosOf(hist[k], i),
                                 PosOf(hist[k], i) + Len(hist[k][i]) - 1))
                        = Range(hist[k][i])

\* A rule was applied to a sequence of two tied teams followed by a decided
\* team: it was invoked on the tied subset alone and separated its teams.
C14_Witness ==
    /\ Len(calls) >= 2
    /\ Len(hist) >= 3
    /\ Len(hist[2]) = 2
    /\ Len(hist[2][1]) = 2
    /\ Len(hist[2][2]) = 1
    /\ calls[2] = <<hist[2][1]>>
    /\ Len(hist[3]) = 3

\* The statistic values the rule's order function reads for the teams of x.
ValuesFor(rule, g, x) ==
    IF rule.mode = "All" THEN team_stats(rule.stat, g).val
    ELSE internal_team_stats(rule.stat, g, Range(x)).val

\* C15: called on two or more teams that all have a statistic value, the
\* order function returns non-empty subsets holding each team of the input
\* once and no other; two teams are in one subset iff their values are
\* equal, and teams of an earlier subset have greater values than teams of a
\* later one.
C15_SubOrderByValue ==
    pc = "ordered" =>
        LET x == order[1]
            out == hist[2]
            stats == ValuesFor(Head(rules), group, x)
        IN  (Len(x) >= 2 /\ Range(x) \subseteq DOMAIN stats) =>
                /\ \A i \in DOMAIN out : out[i] # <<>>
                /\ NoDuplicates(Flatten(out))
                /\ Range(Flatten(out)) = Range(x)
                /\ \A i, j \in DOMAIN out :
                      \A a \in Range(out[i]), b \in Range(out[j]) :
                          /\ i = j <=> stats[a] = stats[b]
                          /\ i < j => stats[a] > stats[b]

\* A head-to-head rule ordered three teams into two teams with the greater
\* value, sharing a subset, and one team behind them.
C15_Witness ==
    /\ pc = "ordered"
    /\ Head(rules).mode = "Internal"
    /\ Len(order[1]) = 3
    /\ Len(hist[2]) = 2
    /\ Len(hist[2][1]) = 2

\* The sum of a team's home deltas and away deltas over the played games.
DeltaSum(kind, g, t) ==
    LET home == {game \in GamesOf(g) : game.home = t}
        away == {game \in GamesOf(g) : game.away = t}
    IN  SumOver(home, [game \in home |-> Stat(kind, game)[1]])
        + SumOver(away, [game \in away |-> Stat(kind, game)[2]])

\* C16: team_stats returns a mapping over exactly the teams of the group;
\* each value is the sum of the team's home and away deltas over the played
\* games: for points 3 per win and 1 per draw, for goal difference goals
\* scored minus goals conceded, for goal count goals scored; a team without
\* a played game has value zero.
C16_TeamStatsSums ==
    pc = "stats" =>
        LET kind == Head(rules).stat
        IN  /\ DOMAIN acc = GroupTeams(group)
            /\ \A t \in GroupTeams(group) :
                  /\ acc[t] = DeltaSum(kind, group, t)
                  /\ kind = "GroupPoint" => acc[t] = Points(group, t)
                  /\ kind = "GoalDiff" =>
                        acc[t] = GoalsScored(group, t) - GoalsConceded(group, t)
                  /\ kind = "GoalCount" => acc[t] = GoalsScored(group, t)
                  /\ GamesOfTeam(group, t) = {} => acc[t] = 0

\* The goal differences of a group of three teams: a team that lost away,
\* and a team without a played game.
C16_Witness ==
    /\ pc = "stats"
    /\ Head(rules).stat = "GoalDiff"
    /\ Cardinality(GroupTeams(group)) = 3
    /\ \E t \in GroupTeams(group) : GamesOfTeam(group, t) = {} /\ acc[t] = 0
    /\ \E game \in GamesOf(group) : acc[game.away] < 0

\* C17: Manual's cmp(a, b) is the outcome stored under the key (a, b) and
\* panics when that key is absent, whatever is stored under (b, a); the
\* tiebreaker goes on or returns only while every pair cmp was called on
\* has an entry, and a panic is at the first compared pair without one.
C17_ManualCmpExactKey ==
    tb.kind = "Manual" =>
        /\ \A a, b \in TeamIds : \A draw \in BOOLEAN :
              Cmp(tb, a, b, draw) = IF <<a, b>> \in DOMAIN tb.table
                                    THEN tb.table[<<a, b>>] ELSE "panic"
        /\ pc \in {"tiebreak", "done"} =>
              \A i \in DOMAIN cmps : cmps[i] \in DOMAIN tb.table
        /\ pc = "panic" =>
              /\ cmps # <<>>
              /\ Last(cmps) \notin DOMAIN tb.table
              /\ \A i \in 1..(Len(cmps) - 1) : cmps[i] \in DOMAIN tb.table

\* The tiebreaker panicked on a pair whose reversed pair has an entry.
C17_Witness ==
    /\ pc = "panic"
    /\ tb.kind = "Manual"
    /\ cmps # <<>>
    /\ <<Last(cmps)[2], Last(cmps)[1]>> \in DOMAIN tb.table

====
